---- MODULE Spec2Model ----
(***************************************************************************)
(* Model of src/value/mod.rs of the cbor crate: the Value enum, its        *)
(* canonical ordering (impl Ord for Value) and the BTreeMap<Value, Value>  *)
(* that Value::Map wraps.                                                  *)
(*                                                                         *)
(* Integer widths are scaled: u64/i64 are IntBits bits wide and i128 is    *)
(* 2 * IntBits bits wide, so that every value fits the checker's integers  *)
(* while the relations between the widths (i64::MIN, u64::MAX, -2^64,      *)
(* i128::MIN) are kept.                                                    *)
(***************************************************************************)
EXTENDS Integers, Sequences, FiniteSets, TLC

VARIABLES
    overflowChecks,  \* build profile: TRUE = overflow checks on (debug), FALSE = wrapping (release)
    a, b, c,         \* the operands of the comparisons
    pc,              \* "start" before the comparisons ran, "done" after
    depth,           \* how many times the operands were wrapped in arrays
    rab, rba, rbc, rac, raa,   \* outcomes of cmp(a,b), cmp(b,a), cmp(b,c), cmp(a,c), cmp(a,a)
    relem,           \* element-wise outcome for two arrays of equal length
    m,               \* the entries of a BTreeMap<Value, Value>, in iteration order
    last             \* the last map operation and what it found

vars == <<overflowChecks, a, b, c, pc, depth, rab, rba, rbc, rac, raa, relem, m, last>>

----------------------------------------------------------------------------
(* Bounds *)

IntBits == 8     \* scaled width of u64 and i64; i128 has twice this width
MaxDepth == 1    \* how many times the comparison operands are wrapped
MaxEntries == 2  \* largest number of entries the map spec lets a map grow to

RECURSIVE Pow2(_)
Pow2(n) == IF n = 0 THEN 1 ELSE 2 * Pow2(n - 1)

U64Max == Pow2(IntBits) - 1
I64Min == 0 - Pow2(IntBits - 1)
I128Max == Pow2(2 * IntBits - 1) - 1
I128Min == (0 - I128Max) - 1

----------------------------------------------------------------------------
(* enum Value *)

Null == [t |-> "Null", v |-> <<>>]
Bool(x) == [t |-> "Bool", v |-> x]
UnsignedInteger(x) == [t |-> "UnsignedInteger", v |-> x]
SignedInteger(x) == [t |-> "SignedInteger", v |-> x]
LargeSignedInteger(x) == [t |-> "LargeSignedInteger", v |-> x]
\* an f64 held as the 8 bytes of its bit pattern, most significant first
Float(bits) == [t |-> "Float", v |-> bits]
Bytes(x) == [t |-> "Bytes", v |-> x]
\* a String held as its UTF-8 bytes
Text(x) == [t |-> "Text", v |-> x]
Array(x) == [t |-> "Array", v |-> x]
\* a BTreeMap held as the sequence of its <<key, value>> entries in iteration order
Map(x) == [t |-> "Map", v |-> x]
Hidden == [t |-> "__Hidden", v |-> <<>>]

IsInteger(x) == x.t \in {"UnsignedInteger", "SignedInteger", "LargeSignedInteger"}

----------------------------------------------------------------------------
(* Ordering of machine integers and of byte vectors *)

IntCmp(x, y) == IF x < y THEN "Less" ELSE IF x = y THEN "Equal" ELSE "Greater"

\* <[u8] as Ord>::cmp: lexicographic, a proper prefix sorts first
RECURSIVE SeqCmp(_, _)
SeqCmp(s, t) ==
    IF s = <<>> /\ t = <<>> THEN "Equal"
    ELSE IF s = <<>> THEN "Less"
    ELSE IF t = <<>> THEN "Greater"
    ELSE IF Head(s) # Head(t) THEN IntCmp(Head(s), Head(t))
    ELSE SeqCmp(Tail(s), Tail(t))

----------------------------------------------------------------------------
(* The serializer, crate::to_vec.  A result is [ok, bytes].                *)

Fail == [ok |-> FALSE, bytes |-> <<>>]
Ok(bs) == [ok |-> TRUE, bytes |-> bs]

\* the initial byte of a data item and the shortest argument that holds n
WriteHead(major, n) ==
    IF n < 24 THEN <<major * 32 + n>>
    ELSE IF n < 256 THEN <<major * 32 + 24, n>>
    ELSE IF n < 65536 THEN <<major * 32 + 25, n \div 256, n % 256>>
    ELSE <<major * 32 + 26, n \div 16777216, (n \div 65536) % 256,
           (n \div 256) % 256, n % 256>>

RECURSIVE to_vec(_)
RECURSIVE SerSeq(_)
RECURSIVE SerEntries(_)

\* the concatenated encodings of the items of xs; fails when one of them fails
SerSeq(xs) ==
    IF xs = <<>> THEN Ok(<<>>)
    ELSE LET h == to_vec(Head(xs))
             r == SerSeq(Tail(xs))
         IN IF h.ok /\ r.ok THEN Ok(h.bytes \o r.bytes) ELSE Fail

SerEntries(es) ==
    IF es = <<>> THEN Ok(<<>>)
    ELSE LET k == to_vec(Head(es)[1])
             w == to_vec(Head(es)[2])
             r == SerEntries(Tail(es))
         IN IF k.ok /\ w.ok /\ r.ok THEN Ok(k.bytes \o w.bytes \o r.bytes) ELSE Fail

to_vec(x) ==
    CASE x.t = "Null" -> Ok(<<246>>)
      [] x.t = "Bool" -> Ok(IF x.v THEN <<245>> ELSE <<244>>)
      [] x.t = "UnsignedInteger" -> Ok(WriteHead(0, x.v))
      [] x.t = "SignedInteger" ->
            IF x.v >= 0 THEN Ok(WriteHead(0, x.v)) ELSE Ok(WriteHead(1, 0 - (x.v + 1)))
      [] x.t = "LargeSignedInteger" ->
            IF x.v >= 0
            THEN IF x.v > U64Max THEN Fail ELSE Ok(WriteHead(0, x.v))
            ELSE IF 0 - (x.v + 1) > U64Max THEN Fail ELSE Ok(WriteHead(1, 0 - (x.v + 1)))
      [] x.t = "Float" -> Ok(<<251>> \o x.v)
      [] x.t = "Bytes" -> Ok(WriteHead(2, Len(x.v)) \o x.v)
      [] x.t = "Text" -> Ok(WriteHead(3, Len(x.v)) \o x.v)
      [] x.t = "Array" ->
            LET r == SerSeq(x.v)
            IN IF r.ok THEN Ok(WriteHead(4, Len(x.v)) \o r.bytes) ELSE Fail
      [] x.t = "Map" ->
            LET r == SerEntries(x.v)
            IN IF r.ok THEN Ok(WriteHead(5, Len(x.v)) \o r.bytes) ELSE Fail
      [] OTHER -> Fail

Serializable(x) == to_vec(x).ok

----------------------------------------------------------------------------
(* Value::major_type; NoRank stands for the panic of unreachable!()        *)

NoRank == 0 - 1

\* as major_type, but a SignedInteger or LargeSignedInteger is rank 1 whatever its sign
major_type_by_variant(x) ==
    CASE x.t = "Null" -> 7
      [] x.t = "Bool" -> 7
      [] x.t = "UnsignedInteger" -> 0
      [] x.t = "SignedInteger" -> 1
      [] x.t = "LargeSignedInteger" -> 1
      [] x.t = "Float" -> 7
      [] x.t = "Bytes" -> 2
      [] x.t = "Text" -> 3
      [] x.t = "Array" -> 4
      [] x.t = "Map" -> 5
      [] OTHER -> NoRank

major_type(x) ==
    CASE x.t = "Null" -> 7
      [] x.t = "Bool" -> 7
      [] x.t = "UnsignedInteger" -> 0
      [] x.t = "SignedInteger" -> IF x.v >= 0 THEN 0 ELSE 1
      [] x.t = "LargeSignedInteger" -> IF x.v >= 0 THEN 0 ELSE 1
      [] x.t = "Float" -> 7
      [] x.t = "Bytes" -> 2
      [] x.t = "Text" -> 3
      [] x.t = "Array" -> 4
      [] x.t = "Map" -> 5
      [] OTHER -> NoRank

----------------------------------------------------------------------------
(* Magnitudes.  A magnitude is [val, ovf]: the value abs() returns and     *)
(* whether taking it overflowed the type it was taken in.                  *)

\* i128::from(x).abs() for a u64 or i64 x: the widened value is never i128::MIN
WideAbs(x) == [val |-> IF x < 0 THEN 0 - x ELSE x, ovf |-> FALSE]

\* i128::abs(x): at i128::MIN the negation overflows; it wraps to i128::MIN
\* when overflow checks are off and panics when they are on
Abs128(x) ==
    IF x = I128Min THEN [val |-> I128Min, ovf |-> TRUE]
    ELSE [val |-> IF x < 0 THEN 0 - x ELSE x, ovf |-> FALSE]

\* the magnitude each integer arm of cmp computes for an operand
Magnitude(x) ==
    CASE x.t = "UnsignedInteger" -> WideAbs(x.v)
      [] x.t = "SignedInteger" -> WideAbs(x.v)
      [] x.t = "LargeSignedInteger" -> Abs128(x.v)

----------------------------------------------------------------------------
(* impl Ord for Value.  An outcome is [ord, ovf, ser]: the Ordering or     *)
(* "Panic", whether an abs() overflowed, whether to_vec was called.        *)

Outcome(o, f, s) == [ord |-> o, ovf |-> f, ser |-> s]

\* as cmp_fallback, but a failed serialization counts as no bytes
cmp_fallback_lenient(x, y) ==
    LET sx == to_vec(x)
        sy == to_vec(y)
    IN Outcome(SeqCmp(sx.bytes, sy.bytes), FALSE, TRUE)

\* the (a, b) arm: serialize both and compare the bytes
cmp_fallback(x, y) ==
    LET sx == to_vec(x)
        sy == to_vec(y)
    IN IF sx.ok /\ sy.ok
       THEN Outcome(SeqCmp(sx.bytes, sy.bytes), FALSE, TRUE)
       ELSE Outcome("Panic", FALSE, TRUE)

\* as cmp_int, but the (LargeSignedInteger, UnsignedInteger) arm compares b with a
cmp_int_swapped(x, y, checks) ==
    LET mx == Magnitude(x)
        my == Magnitude(y)
    IN IF x.t = "UnsignedInteger" /\ y.t = "UnsignedInteger"
       THEN Outcome(IntCmp(x.v, y.v), FALSE, FALSE)
       ELSE IF (mx.ovf \/ my.ovf) /\ checks
            THEN Outcome("Panic", TRUE, FALSE)
            ELSE IF x.t = "LargeSignedInteger" /\ y.t = "UnsignedInteger"
                 THEN Outcome(IntCmp(my.val, mx.val), mx.ovf \/ my.ovf, FALSE)
                 ELSE Outcome(IntCmp(mx.val, my.val), mx.ovf \/ my.ovf, FALSE)

\* as cmp_int, but the (SignedInteger, SignedInteger) arm compares the signed values
cmp_int_signed(x, y, checks) ==
    LET mx == Magnitude(x)
        my == Magnitude(y)
    IN IF x.t = y.t /\ x.t \in {"UnsignedInteger", "SignedInteger"}
       THEN Outcome(IntCmp(x.v, y.v), FALSE, FALSE)
       ELSE IF (mx.ovf \/ my.ovf) /\ checks
            THEN Outcome("Panic", TRUE, FALSE)
            ELSE Outcome(IntCmp(mx.val, my.val), mx.ovf \/ my.ovf, FALSE)

\* the nine integer arms
cmp_int(x, y, checks) ==
    LET mx == Magnitude(x)
        my == Magnitude(y)
    IN IF x.t = "UnsignedInteger" /\ y.t = "UnsignedInteger"
       THEN Outcome(IntCmp(x.v, y.v), FALSE, FALSE)
       ELSE IF (mx.ovf \/ my.ovf) /\ checks
            THEN Outcome("Panic", TRUE, FALSE)
            ELSE Outcome(IntCmp(mx.val, my.val), mx.ovf \/ my.ovf, FALSE)

\* as cmp, but without the two length guards for Bytes and Text
cmp_lexical_first(x, y, checks) ==
    IF major_type(x) = NoRank \/ major_type(y) = NoRank
    THEN Outcome("Panic", FALSE, FALSE)
    ELSE IF major_type(x) # major_type(y)
    THEN Outcome(IntCmp(major_type(x), major_type(y)), FALSE, FALSE)
    ELSE IF IsInteger(x) /\ IsInteger(y)
    THEN cmp_int(x, y, checks)
    ELSE IF x.t = y.t /\ x.t \in {"Array", "Map"} /\ Len(x.v) # Len(y.v)
    THEN Outcome(IntCmp(Len(x.v), Len(y.v)), FALSE, FALSE)
    ELSE IF x.t = y.t /\ x.t \in {"Bytes", "Text"}
    THEN Outcome(SeqCmp(x.v, y.v), FALSE, FALSE)
    ELSE cmp_fallback(x, y)

cmp(x, y, checks) ==
    IF major_type(x) = NoRank \/ major_type(y) = NoRank
    THEN Outcome("Panic", FALSE, FALSE)
    ELSE IF major_type(x) # major_type(y)
    THEN Outcome(IntCmp(major_type(x), major_type(y)), FALSE, FALSE)
    ELSE IF IsInteger(x) /\ IsInteger(y)
    THEN cmp_int(x, y, checks)
    ELSE IF x.t = y.t /\ x.t \in {"Bytes", "Text", "Array", "Map"} /\ Len(x.v) # Len(y.v)
    THEN Outcome(IntCmp(Len(x.v), Len(y.v)), FALSE, FALSE)
    ELSE IF x.t = y.t /\ x.t \in {"Bytes", "Text"}
    THEN Outcome(SeqCmp(x.v, y.v), FALSE, FALSE)
    ELSE cmp_fallback(x, y)

----------------------------------------------------------------------------
(* BTreeMap<Value, Value>, the container of Value::Map, keyed by cmp.  A   *)
(* map of at most one node is searched from its smallest key upwards.  A   *)
(* result is [es, res]: the entries afterwards and what the search found.  *)

RECURSIVE insert(_, _, _, _)
insert(es, k, w, checks) ==
    IF es = <<>> THEN [es |-> <<<<k, w>>>>, res |-> "Inserted"]
    ELSE LET o == cmp(k, Head(es)[1], checks).ord
         IN CASE o = "Panic" -> [es |-> es, res |-> "Panic"]
              [] o = "Equal" -> [es |-> <<<<Head(es)[1], w>>>> \o Tail(es), res |-> "Replaced"]
              [] o = "Less" -> [es |-> <<<<k, w>>>> \o es, res |-> "Inserted"]
              [] o = "Greater" ->
                    LET r == insert(Tail(es), k, w, checks)
                    IN IF r.res = "Panic" THEN [es |-> es, res |-> "Panic"]
                       ELSE [es |-> <<Head(es)>> \o r.es, res |-> r.res]

RECURSIVE remove(_, _, _)
remove(es, k, checks) ==
    IF es = <<>> THEN [es |-> <<>>, res |-> "Absent"]
    ELSE LET o == cmp(k, Head(es)[1], checks).ord
         IN CASE o = "Panic" -> [es |-> es, res |-> "Panic"]
              [] o = "Equal" -> [es |-> Tail(es), res |-> "Removed"]
              [] o = "Less" -> [es |-> es, res |-> "Absent"]
              [] o = "Greater" ->
                    LET r == remove(Tail(es), k, checks)
                    IN IF r.res = "Panic" THEN [es |-> es, res |-> "Panic"]
                       ELSE [es |-> <<Head(es)>> \o r.es, res |-> r.res]

\* the entries of a BTreeMap built by inserting the pairs of ps in turn
RECURSIVE MapFrom(_)
MapFrom(ps) ==
    IF ps = <<>> THEN <<>>
    ELSE insert(MapFrom(SubSeq(ps, 1, Len(ps) - 1)),
                ps[Len(ps)][1], ps[Len(ps)][2], FALSE).es

----------------------------------------------------------------------------
(* The values the operands are drawn from *)

PosZero == <<0, 0, 0, 0, 0, 0, 0, 0>>      \* the bits of 0.0
NegZero == <<128, 0, 0, 0, 0, 0, 0, 0>>    \* the bits of -0.0

TooSmall == 0 - (U64Max + 2)               \* -2^64 - 1, below what CBOR holds
Smallest == 0 - (U64Max + 1)               \* -2^64, the smallest CBOR integer

Integers0 ==
    { UnsignedInteger(5), UnsignedInteger(24), UnsignedInteger(U64Max),
      SignedInteger(5), LargeSignedInteger(5) }

Integers1 ==
    { SignedInteger(0 - 3), SignedInteger(0 - 5), SignedInteger(I64Min),
      LargeSignedInteger(0 - 5), LargeSignedInteger(Smallest),
      LargeSignedInteger(TooSmall), LargeSignedInteger(I128Min) }

Strings ==
    { Bytes(<<1, 2>>), Bytes(<<0, 0, 0>>), Bytes(<<2, 1>>),
      Text(<<97>>), Text(<<98>>), Text(<<195, 169>>) }

Simple == { Null, Bool(TRUE), Float(PosZero), Float(NegZero) }

Arrays ==
    { Array(<<>>), Array(<<UnsignedInteger(5)>>), Array(<<SignedInteger(5)>>),
      Array(<<SignedInteger(0 - 3), Null>>), Array(<<SignedInteger(0 - 5), Null>>),
      Array(<<SignedInteger(0 - 3), Bool(TRUE)>>),
      Array(<<LargeSignedInteger(TooSmall)>>), Array(<<Hidden>>),
      Array(<<Bytes(<<1, 2>>)>>), Array(<<Bytes(<<0, 0, 0>>)>>) }

Maps ==
    { Map(<<>>),
      Map(MapFrom(<< <<Text(<<98>>), UnsignedInteger(1)>>, <<Text(<<97>>), UnsignedInteger(2)>> >>)),
      Map(MapFrom(<< <<UnsignedInteger(5), Null>> >>)),
      Map(MapFrom(<< <<SignedInteger(5), Null>> >>)),
      Map(MapFrom(<< <<LargeSignedInteger(TooSmall), Null>> >>)) }

Values == Integers0 \cup Integers1 \cup Strings \cup Simple \cup Arrays \cup Maps \cup {Hidden}

----------------------------------------------------------------------------
(* Comparing: the operands are drawn at the start, the comparisons run,    *)
(* and the operands may then be wrapped in arrays and compared again.      *)

NoOutcome == Outcome("None", FALSE, FALSE)

\* the outcome of comparing two sequences item by item with cmp:
\* that of the first pair that is not Equal
RECURSIVE ElemCmp(_, _, _)
ElemCmp(xs, ys, checks) ==
    IF xs = <<>> \/ ys = <<>> THEN "Equal"
    ELSE LET o == cmp(Head(xs), Head(ys), checks).ord
         IN IF o # "Equal" THEN o ELSE ElemCmp(Tail(xs), Tail(ys), checks)

SameLenArrays(x, y) == x.t = "Array" /\ y.t = "Array" /\ Len(x.v) = Len(y.v)

MapIdle == m = <<>> /\ last = [op |-> "none", res |-> "none", k |-> Null, w |-> Null, before |-> <<>>]

InitCmp ==
    /\ overflowChecks \in BOOLEAN
    /\ a \in Values /\ b \in Values /\ c \in Values
    /\ pc = "start" /\ depth = 0
    /\ rab = NoOutcome /\ rba = NoOutcome /\ rbc = NoOutcome
    /\ rac = NoOutcome /\ raa = NoOutcome
    /\ relem = "None"
    /\ MapIdle

Compare ==
    /\ pc = "start"
    /\ rab' = cmp(a, b, overflowChecks)
    /\ rba' = cmp(b, a, overflowChecks)
    /\ rbc' = cmp(b, c, overflowChecks)
    /\ rac' = cmp(a, c, overflowChecks)
    /\ raa' = cmp(a, a, overflowChecks)
    /\ relem' = IF SameLenArrays(a, b) THEN ElemCmp(a.v, b.v, overflowChecks) ELSE "None"
    /\ pc' = "done"
    /\ UNCHANGED <<overflowChecks, a, b, c, depth, m, last>>

Wrap ==
    /\ pc = "done" /\ depth < MaxDepth
    /\ a' = Array(<<a>>) /\ b' = Array(<<b>>) /\ c' = Array(<<c>>)
    /\ depth' = depth + 1
    /\ pc' = "start"
    /\ rab' = NoOutcome /\ rba' = NoOutcome /\ rbc' = NoOutcome
    /\ rac' = NoOutcome /\ raa' = NoOutcome
    /\ relem' = "None"
    /\ UNCHANGED <<overflowChecks, m, last>>

NextCmp == Compare \/ Wrap

Spec == InitCmp /\ [][NextCmp]_vars


----------------------------------------------------------------------------
(* Using a map: entries are inserted and removed in any order.  A panic of *)
(* cmp unwinds out of the search, which has not changed the map yet.       *)

Keys ==
    { Text(<<97>>), Text(<<98>>),
      UnsignedInteger(5), SignedInteger(5), LargeSignedInteger(5), UnsignedInteger(24),
      SignedInteger(0 - 3), SignedInteger(0 - 5), LargeSignedInteger(I128Min),
      Array(<<Null>>), Array(<<LargeSignedInteger(TooSmall)>>) }

Stored == { UnsignedInteger(1), UnsignedInteger(2) }

InitMap ==
    /\ overflowChecks \in BOOLEAN
    /\ a = Null /\ b = Null /\ c = Null
    /\ pc = "map" /\ depth = 0
    /\ rab = NoOutcome /\ rba = NoOutcome /\ rbc = NoOutcome
    /\ rac = NoOutcome /\ raa = NoOutcome
    /\ relem = "None"
    /\ MapIdle

Insert(k, w) ==
    LET r == insert(m, k, w, overflowChecks)
    IN /\ pc = "map"
       /\ Len(r.es) <= MaxEntries
       /\ m' = r.es
       /\ last' = [op |-> "insert", res |-> r.res, k |-> k, w |-> w, before |-> m]
       /\ UNCHANGED <<overflowChecks, a, b, c, pc, depth, rab, rba, rbc, rac, raa, relem>>

Remove(k) ==
    LET r == remove(m, k, overflowChecks)
    IN /\ pc = "map"
       /\ m' = r.es
       /\ last' = [op |-> "remove", res |-> r.res, k |-> k, w |-> Null, before |-> m]
       /\ UNCHANGED <<overflowChecks, a, b, c, pc, depth, rab, rba, rbc, rac, raa, relem>>

NextMap ==
    \/ \E k \in Keys, w \in Stored : Insert(k, w)
    \/ \E k \in Keys : Remove(k)

SpecMap == InitMap /\ [][NextMap]_vars

----------------------------------------------------------------------------
(* Vocabulary of the properties *)

Orderings == {"Less", "Equal", "Greater"}

Reverse(o) ==
    CASE o = "Less" -> "Greater"
      [] o = "Greater" -> "Less"
      [] OTHER -> o

Done == pc = "done"

\* lexicographic order of two byte sequences, by the first position that differs
LexOrd(s, t) ==
    LET n == IF Len(s) < Len(t) THEN Len(s) ELSE Len(t)
        diff == {i \in 1..n : s[i] # t[i]}
    IN IF diff = {} THEN IntCmp(Len(s), Len(t))
       ELSE LET i == CHOOSE j \in diff : \A l \in diff : j <= l
            IN IntCmp(s[i], t[i])

\* the mathematical absolute value
MathAbs(x) == IF x < 0 THEN 0 - x ELSE x

\* the rank table of the ordering rules
RankOf(x) ==
    CASE IsInteger(x) /\ x.v >= 0 -> 0
      [] IsInteger(x) /\ x.v < 0 -> 1
      [] x.t = "Bytes" -> 2
      [] x.t = "Text" -> 3
      [] x.t = "Array" -> 4
      [] x.t = "Map" -> 5
      [] x.t \in {"Null", "Bool", "Float"} -> 7
      [] OTHER -> NoRank

Ranked(x) == RankOf(x) # NoRank

SameKindSeq(x, y) == x.t = y.t /\ x.t \in {"Bytes", "Text", "Array", "Map"}

\* the pairings the rules send to the serialize-and-compare fallback
ReachesFallback(x, y) ==
    /\ Ranked(x) /\ Ranked(y) /\ RankOf(x) = RankOf(y)
    /\ \/ RankOf(x) = 7
       \/ x.t = y.t /\ x.t \in {"Array", "Map"} /\ Len(x.v) = Len(y.v)

\* whether the placeholder variant occurs in x; it cannot be built through the public API
RECURSIVE HoldsHidden(_)
HoldsHidden(x) ==
    \/ x.t = "__Hidden"
    \/ x.t = "Array" /\ \E i \in 1..Len(x.v) : HoldsHidden(x.v[i])
    \/ x.t = "Map" /\ \E i \in 1..Len(x.v) : HoldsHidden(x.v[i][1]) \/ HoldsHidden(x.v[i][2])

Constructible(x) == ~HoldsHidden(x)

AllReturned == {rab.ord, rba.ord, rbc.ord, rac.ord} \subseteq Orderings

----------------------------------------------------------------------------
C3_OrderIsByteOrder ==
    (Done /\ Serializable(a) /\ Serializable(b)) =>
        /\ rab.ord = LexOrd(to_vec(a).bytes, to_vec(b).bytes)
        /\ (rab.ord = "Equal") <=> (to_vec(a).bytes = to_vec(b).bytes)

C3_Witness ==
    /\ Done /\ Serializable(a) /\ Serializable(b)
    /\ a = SignedInteger(0 - 3) /\ b = LargeSignedInteger(Smallest)
    /\ rab.ord = "Less" /\ ~rab.ser

(* C4: cmp(a,a) is Equal for every constructible value a, the unvalidated  *)
(* ones included.                                                          *)
C4_ReflexiveOverAllValues ==
    (Done /\ Constructible(a)) => raa.ord = "Equal"

(* C4 as amended: cmp(a,a) is Equal for every value the serializer         *)
(* accepts, nested arrays and maps included; for an array or map that      *)
(* holds a value the serializer rejects, cmp(a,a) fails instead.           *)
C4_ReflexiveWhereSerializable ==
    Done =>
        /\ Serializable(a) => raa.ord = "Equal"
        /\ (a.t \in {"Array", "Map"} /\ ~Serializable(a)) => raa.ord = "Panic"

C4_Witness ==
    /\ Done /\ depth = 1 /\ Serializable(a)
    /\ a.t = "Array" /\ a.v[1].t = "Map" /\ Len(a.v[1].v) = 2
    /\ raa.ord = "Equal" /\ raa.ser

(* C5: when the ranks of a and b differ, cmp(a,b) is the order of the      *)
(* ranks and the content is not inspected (no serialization, no abs).      *)
C5_RankDecides ==
    (Done /\ Ranked(a) /\ Ranked(b) /\ RankOf(a) # RankOf(b)) =>
        /\ rab.ord = IntCmp(RankOf(a), RankOf(b))
        /\ ~rab.ser /\ ~rab.ovf

C5_Witness ==
    /\ Done /\ a = SignedInteger(5) /\ b = SignedInteger(0 - 3)
    /\ rab.ord = "Less"

(* C6: two integers of the same rank, in any mix of the three variants     *)
(* and over the full range of each, compare as their mathematical          *)
(* absolute magnitudes do.                                                 *)
C6_MagnitudeOrder ==
    (Done /\ IsInteger(a) /\ IsInteger(b) /\ RankOf(a) = RankOf(b)) =>
        rab.ord = IntCmp(MathAbs(a.v), MathAbs(b.v))

(* C7: comparing SignedInteger(i64::MIN) with any other integer never      *)
(* overflows or panics while the magnitudes are computed.                  *)
C7_NoOverflowAtI64Min ==
    (Done /\ a = SignedInteger(I64Min) /\ IsInteger(b)) =>
        rab.ord \in Orderings /\ ~rab.ovf

(* C8: two byte strings, texts, arrays or maps of different lengths are    *)
(* ordered by length alone; two byte strings or two texts of equal length  *)
(* are ordered lexically by content; neither calls the serializer.         *)
C8_LengthFirst ==
    (Done /\ SameKindSeq(a, b)) =>
        /\ Len(a.v) # Len(b.v) =>
              rab.ord = IntCmp(Len(a.v), Len(b.v)) /\ ~rab.ser
        /\ (Len(a.v) = Len(b.v) /\ a.t \in {"Bytes", "Text"}) =>
              rab.ord = LexOrd(a.v, b.v) /\ ~rab.ser

C8_Witness ==
    /\ Done /\ a = Bytes(<<1, 2>>) /\ b = Bytes(<<0, 0, 0>>)
    /\ rab.ord = "Less" /\ ~rab.ser

(* C9: when cmp reaches the serialize-and-compare fallback and one of the  *)
(* operands fails to serialize, the comparison fails hard and returns no   *)
(* ordering.                                                               *)
C9_FallbackFailureIsFatal ==
    (Done /\ ReachesFallback(a, b) /\ ~(Serializable(a) /\ Serializable(b))) =>
        rab.ord = "Panic" /\ rab.ser

C9_Witness ==
    /\ Done /\ a = Array(<<LargeSignedInteger(TooSmall)>>) /\ b = Array(<<UnsignedInteger(5)>>)
    /\ rab.ord = "Panic"

(* C10: for two serializable arrays of equal length, cmp of the arrays is  *)
(* cmp of the items at the first index where the items are not Equal, and  *)
(* Equal when there is none.                                               *)
C10_NestingPreservesOrder ==
    (Done /\ SameLenArrays(a, b) /\ Serializable(a) /\ Serializable(b)) =>
        rab.ord = relem

C10_Witness ==
    /\ Done /\ depth = 1 /\ Serializable(a) /\ Serializable(b)
    /\ a = Array(<<Bytes(<<1, 2>>)>>) /\ b = Array(<<Bytes(<<0, 0, 0>>)>>)
    /\ rab.ord = "Less" /\ relem = "Less" /\ rab.ser

----------------------------------------------------------------------------
(* C2: after any insertions and removals the keys of a map iterate in      *)
(* strictly ascending cmp order with no two keys Equal, and inserting a    *)
(* key that is Equal to a present key overwrites that entry's value        *)
(* without adding an entry.                                                *)
C2_MapCanonical ==
    /\ \A i \in 1..Len(m) : \A j \in 1..Len(m) :
          /\ i < j => cmp(m[i][1], m[j][1], overflowChecks).ord = "Less"
          /\ i # j => cmp(m[i][1], m[j][1], overflowChecks).ord # "Equal"
    /\ \A i \in 1..Len(last.before) :
          (last.op = "insert"
             /\ cmp(last.k, last.before[i][1], overflowChecks).ord = "Equal"
             /\ last.res # "Panic") =>
              /\ Len(m) = Len(last.before)
              /\ m[i] = <<last.before[i][1], last.w>>
              /\ \A j \in 1..Len(m) : j # i => m[j] = last.before[j]

C2_Witness ==
    /\ last.op = "insert" /\ last.k = SignedInteger(5) /\ last.w = UnsignedInteger(2)
    /\ last.before = << <<UnsignedInteger(5), UnsignedInteger(1)>>,
                        <<Text(<<97>>), UnsignedInteger(2)>> >>
    /\ m = << <<UnsignedInteger(5), UnsignedInteger(2)>>,
              <<Text(<<97>>), UnsignedInteger(2)>> >>

====
